---- MODULE Spec2Model ----
(***************************************************************************)
(* Blizzard WASM forecaster: the Easter calendar (easter.rs), the ARIMA    *)
(* pipeline (arima.rs) and the forecast boundary operation (lib.rs).       *)
(*                                                                         *)
(* f64 values are modelled as rationals [n, d] in lowest terms with d > 0, *)
(* plus the one non-finite value the pipeline can produce, NaN (0.0 / 0.0),*)
(* written [n |-> 0, d |-> 0].  An arithmetic result is rounded as Fl says.*)
(* Sequences are 1-based here and 0-based in the source: At(s, i) reads    *)
(* the source's s[i].                                                      *)
(***************************************************************************)
EXTENDS Integers, Sequences, FiniteSets, TLC

VARIABLES
    call,            \* the operation invoked last and its arguments
    ret,             \* what that operation returned (or that it panicked)
    model,           \* the Arima instance the operation worked on
    future_easter,   \* fit_and_forecast's future Easter regressor
    overflow_checks, \* the build: TRUE panics on integer overflow, FALSE wraps
    frame,           \* the locals of a forecast_with_exog call that is in its loop
    seen             \* the caller's record: the model as fitted, the forecasts so far

vars == <<call, ret, model, future_easter, overflow_checks, frame, seen>>

----------------------------------------------------------------------------
(* Integer helpers with Rust's semantics. *)

Abs(x) == IF x < 0 THEN -x ELSE x

\* i32 `/` truncates toward zero
RDiv(a, b) == IF a >= 0 THEN a \div b ELSE -((-a) \div b)

\* i32 `%` takes the sign of the dividend
RRem(a, b) == a - b * RDiv(a, b)

Min2(a, b) == IF a < b THEN a ELSE b

Max2(a, b) == IF a > b THEN a ELSE b

At(s, i) == s[i + 1]

RECURSIVE GCD(_, _)
GCD(a, b) == IF b = 0 THEN a ELSE GCD(b, a % b)

----------------------------------------------------------------------------
(* f64 as exact rationals, NaN included. *)

NaN == [n |-> 0, d |-> 0]

IsNaN(x) == x.d = 0

\* n / d in lowest terms, d # 0
QNorm(n, d) ==
    LET g == GCD(Abs(n), Abs(d))
        s == d \div Abs(d)
    IN  [n |-> s * (n \div g), d |-> Abs(d) \div g]

Q(i) == [n |-> i, d |-> 1]

QZero == Q(0)

QOne == Q(1)

\* the width of an f64 mantissa (53 in the program), scaled to the model's integers
MantissaBits == 20

\* the spacing of the representable values around n >= 2^MantissaBits
RECURSIVE Ulp(_, _)
Ulp(n, unit) == IF n \div unit < 2^MantissaBits THEN unit ELSE Ulp(n, 2 * unit)

\* n >= 0 rounded to the nearest multiple of its spacing, ties to even
RoundInt(n, unit) ==
    IF 2 * (n % unit) > unit \/ (2 * (n % unit) = unit /\ (n \div unit) % 2 = 1)
    THEN ((n \div unit) + 1) * unit
    ELSE (n \div unit) * unit

\* the rounding of an f64 result, where the model's numbers can show it: an
\* integer too long for the mantissa is rounded; every other value is kept
Fl(x) ==
    IF IsNaN(x) \/ x.d # 1 \/ Abs(x.n) < 2^MantissaBits THEN x
    ELSE [n |-> (IF x.n < 0 THEN -1 ELSE 1) * RoundInt(Abs(x.n), Ulp(Abs(x.n), 1)),
          d |-> 1]

QAdd(a, b) ==
    IF IsNaN(a) \/ IsNaN(b) THEN NaN
    ELSE LET g == GCD(a.d, b.d)
         IN  Fl(QNorm(a.n * (b.d \div g) + b.n * (a.d \div g), (a.d \div g) * b.d))

QNeg(a) == IF IsNaN(a) THEN NaN ELSE [n |-> -a.n, d |-> a.d]

QSub(a, b) == QAdd(a, QNeg(b))

QMul(a, b) ==
    IF IsNaN(a) \/ IsNaN(b) THEN NaN
    ELSE LET g1 == GCD(Abs(a.n), b.d)
             g2 == GCD(Abs(b.n), a.d)
         IN  Fl([n |-> (a.n \div g1) * (b.n \div g2),
                 d |-> (a.d \div g2) * (b.d \div g1)])

\* 0.0 / 0.0 is NaN; no reachable computation divides a non-zero value by zero
QDiv(a, b) ==
    IF IsNaN(a) \/ IsNaN(b) THEN NaN
    ELSE IF a.n = 0 /\ b.n = 0 THEN NaN
    ELSE LET g1 == GCD(Abs(a.n), Abs(b.n))
             g2 == GCD(a.d, b.d)
         IN  Fl(QNorm((a.n \div g1) * (b.d \div g2), (a.d \div g2) * (b.n \div g1)))

\* every comparison with NaN is false
\* the numerators of a and b over their common denominator
QOver(a, b) == a.n * (b.d \div GCD(a.d, b.d))

QLt(a, b) == ~IsNaN(a) /\ ~IsNaN(b) /\ QOver(a, b) < QOver(b, a)

QGt(a, b) == QLt(b, a)

QLe(a, b) == ~IsNaN(a) /\ ~IsNaN(b) /\ QOver(a, b) <= QOver(b, a)

\* f64::max: a NaN argument is ignored
QMax(a, b) == IF IsNaN(a) THEN b ELSE IF IsNaN(b) THEN a ELSE IF QLt(a, b) THEN b ELSE a

\* x < 1e-10, without leaving the 32-bit integers: n * 10^10 < d
QLtTiny(x) == ~IsNaN(x) /\ x.n <= ((x.d - 1) \div 100000) \div 100000

\* the r in lo .. hi-1 with r * r <= x < (r + 1) * (r + 1), by bisection
RECURSIVE ISqrtIn(_, _, _)
ISqrtIn(x, lo, hi) ==
    IF hi - lo <= 1 THEN lo
    ELSE LET mid == (lo + hi) \div 2
         IN  IF mid * mid <= x THEN ISqrtIn(x, mid, hi) ELSE ISqrtIn(x, lo, mid)

\* floor of the square root of a 32-bit x >= 0 (46341 * 46341 > 2^31)
ISqrt(x) == ISqrtIn(x, 0, 46341)

\* f64::sqrt: exact on squares of rationals, otherwise rounded down to a tenth
QSqrt(x) ==
    IF IsNaN(x) \/ x.n < 0 THEN NaN
    ELSE LET rn == ISqrt(x.n)
             rd == ISqrt(x.d)
         IN  IF rn * rn = x.n /\ rd * rd = x.d THEN QNorm(rn, rd)
             ELSE QNorm(ISqrt((x.n * 100) \div x.d), 10)

RECURSIVE QSum(_)
QSum(s) == IF Len(s) = 0 THEN QZero ELSE QAdd(QSum(SubSeq(s, 1, Len(s) - 1)), s[Len(s)])

QSeq(ints) == [i \in 1..Len(ints) |-> Q(ints[i])]

----------------------------------------------------------------------------
(* easter.rs *)

easter_sunday(year) ==
    LET a == RRem(year, 19)
        b == RDiv(year, 100)
        c == RRem(year, 100)
        d == RDiv(b, 4)
        e == RRem(b, 4)
        f == RDiv(b + 8, 25)
        g == RDiv(b - f + 1, 3)
        h == RRem(19 * a + b - d - g + 15, 30)
        i == RDiv(c, 4)
        k == RRem(c, 4)
        l == RRem(32 + 2 * e + 2 * i - h - k, 7)
        m == RDiv(a + 11 * h + 22 * l, 451)
        month == RDiv(h + l - 7 * m + 114, 31)
        day == RRem(h + l - 7 * m + 114, 31) + 1
    IN  <<month, day>>

\* easter_invoice_month without the step into the previous year
easter_invoice_month_same_year(easter_year) ==
    IF easter_sunday(easter_year)[1] <= 3
    THEN <<easter_year, easter_sunday(easter_year)[1] + 9>>
    ELSE <<easter_year, easter_sunday(easter_year)[1] - 3>>

easter_invoice_month(easter_year) ==
    LET month == easter_sunday(easter_year)[1]
    IN  IF month <= 3 THEN <<easter_year - 1, month + 9>>
        ELSE <<easter_year, month - 3>>

\* easter_invoice_months over the window's own years only
easter_invoice_months_short(start_year, length) ==
    {easter_invoice_month(year) : year \in start_year..(start_year + RDiv(length, 12))}

\* the HashSet filled by `for year in start_year..=end_year`
easter_invoice_months(start_year, length) ==
    LET end_year == start_year + RDiv(length, 12) + 3
    IN  {easter_invoice_month(year) : year \in start_year..end_year}

\* fill_regressor with a cursor that wraps the month and keeps the year
RECURSIVE fill_regressor_no_carry(_, _, _, _, _)
fill_regressor_no_carry(i, length, y, m, months) ==
    IF i >= length THEN <<>>
    ELSE <<IF <<y, m>> \in months THEN QOne ELSE QZero>>
         \o fill_regressor_no_carry(i + 1, length, y,
                                    IF m + 1 > 12 THEN 1 ELSE m + 1, months)

\* the cursor walk: entries i..length-1 of the regressor, cursor at (y, m)
RECURSIVE fill_regressor(_, _, _, _, _)
fill_regressor(i, length, y, m, months) ==
    IF i >= length THEN <<>>
    ELSE LET entry == IF <<y, m>> \in months THEN QOne ELSE QZero
             wrap == m + 1 > 12
         IN  <<entry>> \o fill_regressor(i + 1, length,
                                         IF wrap THEN y + 1 ELSE y,
                                         IF wrap THEN 1 ELSE m + 1, months)

\* create_easter_regressor with a start month past December carried into the
\* next year before the walk
create_easter_regressor_normalized(start_year, start_month, length) ==
    fill_regressor(0, length, start_year + RDiv(start_month - 1, 12),
                   RRem(start_month - 1, 12) + 1,
                   easter_invoice_months(start_year, length))

create_easter_regressor(start_year, start_month, length) ==
    fill_regressor(0, length, start_year, start_month,
                   easter_invoice_months(start_year, length))

----------------------------------------------------------------------------
(* arima.rs: helper functions *)

Half == [n |-> 1, d |-> 2]

mean(data) ==
    IF Len(data) = 0 THEN QZero ELSE QDiv(QSum(data), Q(Len(data)))

\* series.iter().zip(exog.iter()).filter(..).map(|(&y, _)| y), from pair i on
RECURSIVE zip_filter(_, _, _, _)
zip_filter(series, exog, i, on) ==
    IF i >= Min2(Len(series), Len(exog)) THEN <<>>
    ELSE LET x == At(exog, i)
             keep == IF on THEN QGt(x, Half) ELSE QLe(x, Half)
         IN  (IF keep THEN <<At(series, i)>> ELSE <<>>)
             \o zip_filter(series, exog, i + 1, on)

\* exog no longer than series (residuals[i] is indexed by exog's positions)
regress_out_exogenous(series, exog) ==
    LET with_exog == zip_filter(series, exog, 0, TRUE)
        without_exog == zip_filter(series, exog, 0, FALSE)
        coefficient == IF Len(with_exog) # 0 /\ Len(without_exog) # 0
                       THEN QSub(mean(with_exog), mean(without_exog))
                       ELSE QZero
        residuals == [k \in 1..Len(series) |->
                        IF k <= Len(exog) /\ QGt(exog[k], Half)
                        THEN QSub(series[k], coefficient) ELSE series[k]]
    IN  [adj |-> residuals, coef |-> coefficient]

\* series.iter().enumerate() filtered by value > 0.0 and, when period > 0, by
\* i % period = k; period = 0 keeps every index (the overall mean's filter)
RECURSIVE positives(_, _, _, _)
positives(series, i, period, k) ==
    IF i >= Len(series) THEN <<>>
    ELSE (IF QGt(At(series, i), QZero) /\ (period = 0 \/ i % period = k)
          THEN <<At(series, i)>> ELSE <<>>)
         \o positives(series, i + 1, period, k)

\* period >= 1
calculate_seasonal_factors(series, period) ==
    LET all == positives(series, 0, 0, 0)
        overall_mean == QDiv(QSum(all), Q(Max2(Len(all), 1)))
        sums(k) == QSum(positives(series, 0, period, k))
        counts(k) == Len(positives(series, 0, period, k))
    IN  [j \in 1..period |->
            IF counts(j - 1) > 0
            THEN QDiv(QDiv(sums(j - 1), Q(counts(j - 1))), overall_mean)
            ELSE QOne]

deseasonalize(series, factors) ==
    [k \in 1..Len(series) |->
        LET factor == At(factors, (k - 1) % Len(factors))
        IN  IF QGt(factor, QZero) THEN QDiv(series[k], factor) ELSE series[k]]

reseasonalize(series, factors, start_idx) ==
    [k \in 1..Len(series) |->
        LET factor_idx == (start_idx + (k - 1)) % Len(factors)
        IN  QMul(series[k], At(factors, factor_idx))]

\* difference1 with the subtraction turned round
difference1_reversed(result) ==
    [k \in 1..Max2(Len(result) - 1, 0) |-> QSub(result[k], result[k + 1])]

difference1(result) ==
    [k \in 1..Max2(Len(result) - 1, 0) |-> QSub(result[k + 1], result[k])]

RECURSIVE difference(_, _)
difference(series, d) ==
    IF d = 0 THEN series ELSE difference(difference1(series), d - 1)

\* cumsum[0] = last_value + result[0]; cumsum[i] = cumsum[i-1] + result[i]
RECURSIVE cumsum_from(_, _)
cumsum_from(last_value, result) ==
    IF Len(result) = 0 THEN <<>>
    ELSE LET head == cumsum_from(last_value, SubSeq(result, 1, Len(result) - 1))
             prev == IF Len(head) = 0 THEN last_value ELSE head[Len(head)]
         IN  Append(head, QAdd(prev, result[Len(result)]))

RECURSIVE undifference_pass(_, _, _, _)
undifference_pass(result, original, d, ord) ==
    IF ord >= d THEN [panic |-> FALSE, val |-> result]
    ELSE LET at == Len(original) - 1 - (d - ord - 1)
         IN  IF at < 0 \/ at >= Len(original) \/ Len(result) = 0
             THEN [panic |-> TRUE, val |-> <<>>]
             ELSE undifference_pass(cumsum_from(At(original, at), result),
                                    original, d, ord + 1)

\* original[..] and result[0] are bounds-checked: out of range is a panic
undifference(differenced, original, d) ==
    IF d = 0 THEN [panic |-> FALSE, val |-> differenced]
    ELSE undifference_pass(differenced, original, d, 0)

\* autocorrelation without the fallback for a variance below 1e-10
autocorrelation_unguarded(series, max_lag) ==
    LET n == Len(series)
        variance == QDiv(QSum([k \in 1..n |-> QMul(series[k], series[k])]), Q(n))
        at_lag(lag) ==
            LET sum == QSum([k \in 1..Max2(n - lag, 0) |->
                                QMul(At(series, lag + k - 1), At(series, k - 1))])
            IN  QDiv(sum, QMul(Q(n), variance))
    IN  [k \in 1..(max_lag + 1) |-> at_lag(k - 1)]

autocorrelation(series, max_lag) ==
    LET n == Len(series)
        variance == QDiv(QSum([k \in 1..n |-> QMul(series[k], series[k])]), Q(n))
        at_lag(lag) ==
            LET sum == QSum([k \in 1..Max2(n - lag, 0) |->
                                QMul(At(series, lag + k - 1), At(series, k - 1))])
            IN  QDiv(sum, QMul(Q(n), variance))
    IN  IF QLtTiny(variance)
        THEN [k \in 1..(max_lag + 1) |-> IF k = 1 THEN QOne ELSE QZero]
        ELSE [k \in 1..(max_lag + 1) |-> at_lag(k - 1)]

\* the numerator of the reflection coefficient of turn i
levinson_num(autocorr, phi_prev, i) ==
    QSub(At(autocorr, i + 1),
         QSum([j \in 1..i |-> QMul(At(phi_prev, j - 1), At(autocorr, i - (j - 1)))]))

\* phi after turn i: phi[i] = phi_i, phi[j] updated for j < i, the rest untouched
levinson_update(phi_prev, p, i, phi_i) ==
    [k \in 1..p |->
        IF k - 1 < i
        THEN QSub(At(phi_prev, k - 1), QMul(phi_i, At(phi_prev, i - 1 - (k - 1))))
        ELSE IF k - 1 = i THEN phi_i ELSE phi_prev[k]]

RECURSIVE levinson(_, _, _, _, _)

\* the end of turn i: `if v < 1e-10 { break; }`
levinson_next(autocorr, p, i, phi, v) ==
    IF QLtTiny(v) THEN phi ELSE levinson(autocorr, p, i + 1, phi, v)

levinson_turn(autocorr, p, i, phi_prev, v, phi_i) ==
    levinson_next(autocorr, p, i, levinson_update(phi_prev, p, i, phi_i),
                  QMul(v, QSub(QOne, QMul(phi_i, phi_i))))

\* the Levinson-Durbin loop `for i in 1..p`, from turn i on
levinson(autocorr, p, i, phi, v) ==
    IF i >= p THEN phi
    ELSE levinson_turn(autocorr, p, i, phi, v,
                       QDiv(levinson_num(autocorr, phi, i), v))

levinson_init(autocorr, p) ==
    [k \in 1..p |-> IF k = 1 THEN At(autocorr, 1) ELSE QZero]

\* autocorr has max_lag + 1 >= 1 entries
solve_yule_walker(autocorr) ==
    IF Len(autocorr) - 1 = 0 THEN <<>>
    ELSE levinson(autocorr, Len(autocorr) - 1, 1,
                  levinson_init(autocorr, Len(autocorr) - 1),
                  QSub(QOne, QMul(At(autocorr, 1), At(autocorr, 1))))

calculate_residuals(series, ar_coeffs) ==
    [k \in 1..Len(series) |->
        LET i == k - 1
            \* the j with i > j are 0 .. min(p, i) - 1
            predicted == QSum([t \in 1..Min2(Len(ar_coeffs), i) |->
                                 QMul(At(ar_coeffs, t - 1), At(series, i - (t - 1) - 1))])
        IN  QSub(series[k], predicted)]

estimate_ma_coefficients(residuals, q) ==
    IF q = 0 THEN <<>>
    ELSE LET autocorr == autocorrelation(residuals, q)
         IN  [k \in 1..q |-> QMul(At(autocorr, k), Half)]

----------------------------------------------------------------------------
(* arima.rs: the Arima model *)

None == [some |-> FALSE, v |-> <<>>]

Some(v) == [some |-> TRUE, v |-> v]

Arima_new(p, d, q, seasonal_period) ==
    [p |-> p, d |-> d, q |-> q, seasonal_period |-> seasonal_period,
     ar_coeffs |-> <<>>, ma_coeffs |-> <<>>, seasonal_factors |-> <<>>,
     intercept |-> QZero, original_series |-> <<>>, differenced_series |-> <<>>,
     residuals |-> <<>>, exog_coeffs |-> <<>>, exog_data |-> None]

\* 1. regress out exogenous effects (if present)
fit_adjusted_series(series, exog) ==
    IF exog.some THEN regress_out_exogenous(series, exog.v).adj ELSE series

fit_exog_coeffs(series, exog) ==
    IF exog.some THEN <<regress_out_exogenous(series, exog.v).coef>> ELSE <<>>

centered(self) ==
    [k \in 1..Len(self.differenced_series) |->
        QSub(self.differenced_series[k], self.intercept)]

\* 5. the MA coefficients, from the residuals
fit_ma(self) ==
    [self EXCEPT !.ma_coeffs = IF self.q > 0
                               THEN estimate_ma_coefficients(self.residuals, self.q)
                               ELSE <<>>]

fit_residuals(self) ==
    fit_ma([self EXCEPT !.residuals = calculate_residuals(centered(self), self.ar_coeffs)])

\* 5. the AR coefficients, by Yule-Walker
fit_ar(self) ==
    fit_residuals([self EXCEPT !.ar_coeffs =
                      IF self.p > 0
                      THEN solve_yule_walker(autocorrelation(centered(self), self.p))
                      ELSE <<>>])

\* 4. differencing, and the intercept
fit_differenced(self, differenced_series) ==
    fit_ar([self EXCEPT !.differenced_series = differenced_series,
                        !.intercept = mean(differenced_series)])

\* 3. deseasonalize
fit_seasonal(self, adjusted_series, seasonal_factors) ==
    fit_differenced([self EXCEPT !.seasonal_factors = seasonal_factors],
                    difference(deseasonalize(adjusted_series, seasonal_factors), self.d))

\* 2. the seasonal factors
fit_adjusted(self, adjusted_series) ==
    fit_seasonal(self, adjusted_series,
                 calculate_seasonal_factors(adjusted_series, self.seasonal_period))

fit_with_exog(self, series, exog) ==
    fit_adjusted([self EXCEPT !.original_series = series, !.exog_data = exog,
                              !.exog_coeffs = fit_exog_coeffs(series, exog)],
                 fit_adjusted_series(series, exog))

fit(self, series) == fit_with_exog(self, series, None)

\* the AR component of one prediction
ar_component(self, extended) ==
    QSum([t \in 1..Min2(Len(self.ar_coeffs), Len(extended)) |->
            QMul(self.ar_coeffs[t],
                 QSub(At(extended, Len(extended) - 1 - (t - 1)), self.intercept))])

\* `extended_residuals.len() - 1 - i` is a usize subtraction: below zero it panics
\* with overflow checks and wraps without them
ma_underflows(self, extended_residuals) ==
    \E i \in 0..(Len(self.ma_coeffs) - 1) : Len(extended_residuals) - 1 - i < 0

\* ma_component reading the training residuals in every turn
ma_component_no_decay(self, extended_residuals) ==
    QSum([t \in 1..Len(self.ma_coeffs) |->
            LET res_idx == Len(self.residuals) - 1 - (t - 1)
            IN  IF res_idx >= 0
                THEN QMul(self.ma_coeffs[t], At(self.residuals, res_idx))
                ELSE QZero])

\* the MA component; a wrapped res_idx is never < residuals.len()
ma_component(self, extended_residuals) ==
    QSum([t \in 1..Len(self.ma_coeffs) |->
            LET res_idx == Len(extended_residuals) - 1 - (t - 1)
            IN  IF res_idx >= 0 /\ res_idx < Len(self.residuals)
                THEN QMul(self.ma_coeffs[t], At(extended_residuals, res_idx))
                ELSE QZero])

\* the loop `for _ in 0..steps`, `left` turns to go
RECURSIVE forecast_loop(_, _, _, _, _)
forecast_loop(self, left, extended, extended_residuals, checks) ==
    IF left = 0 THEN [panic |-> FALSE, val |-> extended]
    ELSE IF checks /\ ma_underflows(self, extended_residuals)
    THEN [panic |-> TRUE, val |-> <<>>]
    ELSE LET prediction == QAdd(QAdd(self.intercept, ar_component(self, extended)),
                                ma_component(self, extended_residuals))
         IN  forecast_loop(self, left - 1, Append(extended, prediction),
                           Append(extended_residuals, QZero), checks)

\* 1. the forecast of the differenced series: the tail of `extended`
forecast_tail(self, run) ==
    IF run.panic THEN run
    ELSE [panic |-> FALSE,
          val |-> SubSeq(run.val, Len(self.differenced_series) + 1, Len(run.val))]

forecast_diff(self, steps, checks) ==
    forecast_tail(self, forecast_loop(self, steps, self.differenced_series,
                                      self.residuals, checks))

\* the original series deseasonalized again
deseasonalized_history(self) ==
    [k \in 1..Len(self.original_series) |->
        IF QGt(At(self.seasonal_factors, (k - 1) % self.seasonal_period), QZero)
        THEN QDiv(self.original_series[k],
                  At(self.seasonal_factors, (k - 1) % self.seasonal_period))
        ELSE self.original_series[k]]

\* 2. undifference
forecast_undifference(self, fd) ==
    IF fd.panic THEN fd ELSE undifference(fd.val, deseasonalized_history(self), self.d)

forecast_deseas(self, steps, checks) ==
    forecast_undifference(self, forecast_diff(self, steps, checks))

forecast_start_month(self) == Len(self.original_series) % self.seasonal_period

\* 3. reseasonalize
forecast_reseasonalize(self, fs) ==
    IF fs.panic THEN fs
    ELSE [panic |-> FALSE,
          val |-> reseasonalize(fs.val, self.seasonal_factors, forecast_start_month(self))]

forecast_reseasonalized(self, steps, checks) ==
    forecast_reseasonalize(self, forecast_deseas(self, steps, checks))

\* 4. add back the exogenous effects for future periods
add_exog(self, forecast_, future_exog) ==
    IF future_exog.some /\ Len(self.exog_coeffs) # 0
    THEN [k \in 1..Len(forecast_) |->
            IF k - 1 < Len(future_exog.v)
            THEN QAdd(forecast_[k], QMul(self.exog_coeffs[1], future_exog.v[k]))
            ELSE forecast_[k]]
    ELSE forecast_

\* ensure non-negative
non_negative(forecast_) == [k \in 1..Len(forecast_) |-> QMax(forecast_[k], QZero)]

forecast_finish(self, fr, future_exog) ==
    IF fr.panic THEN fr
    ELSE [panic |-> FALSE, val |-> non_negative(add_exog(self, fr.val, future_exog))]

forecast_with_exog(self, steps, future_exog, checks) ==
    forecast_finish(self, forecast_reseasonalized(self, steps, checks), future_exog)

forecast(self, steps, checks) ==
    forecast_with_exog(self, steps, None, checks)

\* forecast_with_exog with `extended` and `extended_residuals` the model's own
\* vectors, left as the loop made them
self_after_forecast_in_place(self, steps, checks) ==
    IF forecast_loop(self, steps, self.differenced_series, self.residuals, checks).panic
    THEN self
    ELSE [self EXCEPT
            !.differenced_series =
                forecast_loop(self, steps, self.differenced_series, self.residuals,
                              checks).val,
            !.residuals = self.residuals \o [k \in 1..steps |-> QZero]]

\* the model after a forecast_with_exog call: `&self`, the loop pushes to clones
self_after_forecast(self, steps, checks) == self

QAbs(x) == IF IsNaN(x) THEN NaN ELSE [n |-> Abs(x.n), d |-> x.d]

Near(confidence, hundredths) ==
    QLt(QAbs(QSub(confidence, QNorm(hundredths, 100))), QNorm(1, 1000))

z_score(confidence) ==
    IF Near(confidence, 99) THEN QNorm(2576, 1000)
    ELSE IF Near(confidence, 95) THEN QNorm(196, 100)
    ELSE IF Near(confidence, 90) THEN QNorm(1645, 1000)
    ELSE IF Near(confidence, 80) THEN QNorm(128, 100)
    ELSE QNorm(196, 100)

standard_error(self) ==
    QSqrt(QDiv(QSum([k \in 1..Len(self.residuals) |->
                        QMul(self.residuals[k], self.residuals[k])]),
               Q(Max2(Len(self.residuals), 1))))

\* interval_scale indexed by the forecast step alone
interval_scale_by_step(self, i) ==
    At(self.seasonal_factors, i % self.seasonal_period)

interval_scale(self, i) ==
    At(self.seasonal_factors, (Len(self.original_series) + i) % self.seasonal_period)

interval(self, i, confidence) ==
    QMul(QMul(z_score(confidence),
              QMul(standard_error(self), QSqrt(QAdd(QOne, QMul(Q(i), QNorm(1, 10)))))),
         interval_scale(self, i))

\* lower_band without the clamp at zero
lower_band_unclamped(self, f, confidence) ==
    [k \in 1..Len(f) |-> QSub(f[k], interval(self, k - 1, confidence))]

lower_band(self, f, confidence) ==
    [k \in 1..Len(f) |-> QMax(QSub(f[k], interval(self, k - 1, confidence)), QZero)]

upper_band(self, f, confidence) ==
    [k \in 1..Len(f) |-> QAdd(f[k], interval(self, k - 1, confidence))]

intervals_around(self, f, confidence) ==
    IF f.panic THEN [panic |-> TRUE, lower |-> <<>>, upper |-> <<>>]
    ELSE [panic |-> FALSE, lower |-> lower_band(self, f.val, confidence),
          upper |-> upper_band(self, f.val, confidence)]

confidence_intervals(self, steps, confidence, checks) ==
    intervals_around(self, forecast(self, steps, checks), confidence)

----------------------------------------------------------------------------
(* arima.rs: fit_and_forecast; start_month is in 1..12.  The locals `model` *)
(* and `future_easter` are returned beside the ForecastResult.             *)

fit_and_forecast_regression(series, start_year, start_month, use_easter) ==
    IF use_easter
    THEN regress_out_exogenous(series,
             create_easter_regressor(start_year, start_month, Len(series)))
    ELSE [adj |-> series, coef |-> QZero]

fit_and_forecast_future_easter(series, start_year, start_month, forecast_months) ==
    LET last_idx == Len(series)
        last_month == ((start_month - 1 + last_idx) % 12) + 1
        years_elapsed == (start_month - 1 + last_idx) \div 12
        last_year == start_year + years_elapsed
    IN  create_easter_regressor(last_year, last_month + 1, forecast_months)

ForecastResult(f, ci, m, easter_coef) ==
    IF f.panic \/ ci.panic THEN [panic |-> TRUE]
    ELSE [panic |-> FALSE, forecast |-> f.val, lower |-> ci.lower, upper |-> ci.upper,
          seasonal_factors |-> m.seasonal_factors, easter_coefficient |-> easter_coef,
          ar_coefficients |-> m.ar_coeffs, ma_coefficients |-> m.ma_coeffs,
          intercept |-> m.intercept]

fit_and_forecast_forecast(m, easter_coef, future_easter_, forecast_months, checks) ==
    [result |-> ForecastResult(forecast_with_exog(m, forecast_months, future_easter_, checks),
                               confidence_intervals(m, forecast_months, QNorm(80, 100),
                                                    checks),
                               m, easter_coef),
     model |-> m,
     future_easter |-> future_easter_.v]

fit_and_forecast_fit(reg, future_easter_, forecast_months, checks) ==
    fit_and_forecast_forecast(fit(Arima_new(2, 1, 1, 12), reg.adj), reg.coef,
                              future_easter_, forecast_months, checks)

fit_and_forecast(series, start_year, start_month, forecast_months, use_easter, checks) ==
    fit_and_forecast_fit(
        fit_and_forecast_regression(series, start_year, start_month, use_easter),
        IF use_easter
        THEN Some(fit_and_forecast_future_easter(series, start_year, start_month,
                                                 forecast_months))
        ELSE None,
        forecast_months, checks)

----------------------------------------------------------------------------
(* lib.rs: the forecast boundary operation *)

default_p == 2

default_d == 1

default_q == 1

default_seasonal_period == 12

TooShort == "Series too short for specified ARIMA parameters"

ParseFailed == "Failed to parse input"

NoModel == [fitted |-> FALSE]

ErrorOutput(message) ==
    [response |-> [kind |-> "error", error |-> message],
     model |-> NoModel, future_easter |-> <<>>]

\* a panic leaves the boundary as an abort: there is no response
ForecastOutput(run) ==
    [response |->
        IF run.result.panic THEN [kind |-> "panic"]
        ELSE [kind |-> "ok", forecast |-> run.result.forecast,
              lower |-> run.result.lower, upper |-> run.result.upper,
              seasonal_factors |-> run.result.seasonal_factors,
              easter_coefficient |-> run.result.easter_coefficient,
              ar_coefficients |-> run.result.ar_coefficients,
              ma_coefficients |-> run.result.ma_coefficients,
              intercept |-> run.result.intercept],
     model |-> run.model, future_easter |-> run.future_easter]

\* input.json_ok: serde_json::from_str gave a ForecastInput
\* series_too_short with the minimum length itself rejected
series_too_short_inclusive(input) ==
    Len(input.series) <= input.p + input.d + input.q + input.seasonal_period

series_too_short(input) ==
    Len(input.series) < input.p + input.d + input.q + input.seasonal_period

forecast_entry(input, checks) ==
    IF ~input.json_ok THEN ErrorOutput(ParseFailed)
    ELSE IF series_too_short(input) THEN ErrorOutput(TooShort)
    ELSE ForecastOutput(fit_and_forecast(input.series, input.start_year,
                                         input.start_month, input.forecast_months,
                                         input.use_easter_regressor, checks))

----------------------------------------------------------------------------
(* The forecast boundary as a state machine: one request, one response. *)

MaxLen == 3

MaxValue == 2

MaxSteps == 2

MaxSize == 5

\* every series of at most MaxLen months with values in 0 .. MaxValue
ShortSeries == UNION {[1..n -> 0..MaxValue] : n \in 0..MaxLen}

\* longer series: flat, flat with a peak in the first month, flat with a gap
\* in the second
FlatLengths == {10, 15, 16}

ShapedLengths == {10, 11}

Flat(n) == [k \in 1..n |-> 1]

Peak(n) == [k \in 1..n |-> IF k = 1 THEN 3 ELSE 1]

Gap(n) == [k \in 1..n |-> IF k = 2 THEN 0 ELSE 1]

LongSeries ==
    {Flat(n) : n \in FlatLengths} \cup {Peak(n) : n \in ShapedLengths}
        \cup {Gap(n) : n \in ShapedLengths}

Orders == {<<0, 0, 0, 0>>, <<1, 0, 0, 1>>, <<3, 0, 2, 0>>,
           <<default_p, default_d, default_q, default_seasonal_period>>}

Starts == {<<2026, 1>>, <<2025, 12>>}

ForecastInput(series, start, forecast_months, orders, use_easter) ==
    [json_ok |-> TRUE, series |-> QSeq(series), start_year |-> start[1],
     start_month |-> start[2], forecast_months |-> forecast_months,
     p |-> orders[1], d |-> orders[2], q |-> orders[3], seasonal_period |-> orders[4],
     use_easter_regressor |-> use_easter]

Malformed == [json_ok |-> FALSE]

ShortRequests ==
    {ForecastInput(series, start, h, orders, e) :
        series \in ShortSeries, start \in Starts,
        h \in 0..MaxSteps, orders \in Orders, e \in BOOLEAN}

LongRequests ==
    {ForecastInput(series, <<2023, 1>>, h, orders, e) :
        series \in LongSeries, h \in 0..MaxSteps, orders \in Orders, e \in BOOLEAN}

Requests ==
    {r \in ShortRequests : Len(r.series) + r.forecast_months <= MaxSize}
        \cup LongRequests \cup {Malformed}

NoCall == [fn |-> "none"]

NoRet == [kind |-> "none"]

NoFrame == [s |-> 0, extended |-> <<>>, extended_residuals |-> <<>>, ma |-> <<>>]

NothingSeen == [fitted |-> NoModel, forecasts |-> <<>>, repeated |-> FALSE]

Init ==
    /\ call = NoCall
    /\ ret = NoRet
    /\ model = NoModel
    /\ future_easter = <<>>
    /\ overflow_checks \in BOOLEAN
    /\ frame = NoFrame
    /\ seen = NothingSeen

Respond(input, out) ==
    /\ call' = [fn |-> "forecast", input |-> input]
    /\ ret' = out.response
    /\ model' = out.model
    /\ future_easter' = out.future_easter
    /\ UNCHANGED <<overflow_checks, frame, seen>>

Forecast ==
    /\ call = NoCall
    /\ \E input \in Requests : Respond(input, forecast_entry(input, overflow_checks))

Next == Forecast

Spec == Init /\ [][Next]_vars

----------------------------------------------------------------------------
(* easter.rs as a state machine: one call of one of its functions. *)

MaxWindow == 24

Years == 2019..2028

\* 13 is what fit_and_forecast passes for a series that ends in November
StartMonths == 1..13

\* a call of a function that touches no model
Return(invoked, value) ==
    /\ call' = invoked
    /\ ret' = value
    /\ UNCHANGED <<model, future_easter, overflow_checks, frame, seen>>

EasterSunday ==
    /\ call = NoCall
    /\ \E year \in Years :
        Return([fn |-> "easter_sunday", year |-> year],
               [kind |-> "date", val |-> easter_sunday(year)])

EasterInvoiceMonth ==
    /\ call = NoCall
    /\ \E year \in Years :
        Return([fn |-> "easter_invoice_month", year |-> year],
               [kind |-> "month", val |-> easter_invoice_month(year)])

CreateEasterRegressor ==
    /\ call = NoCall
    /\ \E start_year \in Years, start_month \in StartMonths, length \in 0..MaxWindow :
        Return([fn |-> "create_easter_regressor", start_year |-> start_year,
                start_month |-> start_month, length |-> length],
               [kind |-> "regressor",
                val |-> create_easter_regressor(start_year, start_month, length)])

NextEaster == EasterSunday \/ EasterInvoiceMonth \/ CreateEasterRegressor

SpecEaster == Init /\ [][NextEaster]_vars

----------------------------------------------------------------------------
(* arima.rs, difference and undifference, as a state machine: one call. *)

MaxDiffLen == 2

\* the largest odd integer an f64 of MantissaBits bits holds
Big == 2^MantissaBits - 1

DiffValues == {-Big, -1, 0, 2, Big}

DiffSeqs(lo, hi) == UNION {[1..n -> DiffValues] : n \in lo..hi}

\* the series of tests::test_difference
TestSeries == <<10, 12, 15, 14, 18>>

LastN(s, n) == SubSeq(s, Len(s) - n + 1, Len(s))

SeriesResult(r) == [kind |-> "series", panic |-> r.panic, val |-> r.val]

Difference ==
    /\ call = NoCall
    /\ \E series \in DiffSeqs(0, MaxDiffLen + 1) \cup {TestSeries}, d \in 0..2 :
        Return([fn |-> "difference", series |-> QSeq(series), d |-> d],
               SeriesResult([panic |-> FALSE, val |-> difference(QSeq(series), d)]))

\* undifference on the continuation's part of a differenced series
UndifferenceTail(history, continuation, d, differenced) ==
    Return([fn |-> "undifference", differenced |-> differenced, original |-> history,
            d |-> d, continuation |-> continuation],
           SeriesResult(undifference(differenced, history, d)))

Undifference ==
    /\ call = NoCall
    /\ \E history \in DiffSeqs(1, MaxDiffLen), continuation \in DiffSeqs(1, MaxDiffLen),
          d \in 0..2 :
        /\ Len(history) >= d
        /\ UndifferenceTail(QSeq(history), QSeq(continuation), d,
                            LastN(difference(QSeq(history \o continuation), d),
                                  Len(continuation)))

NextDiff == Difference \/ Undifference

SpecDiff == Init /\ [][NextDiff]_vars

----------------------------------------------------------------------------
(* arima.rs, the Arima model, as a state machine: new and fit, then one     *)
(* forecast or confidence_intervals call.                                   *)

ArimaOrders == {<<0, 0, 0, 1>>, <<1, 0, 0, 1>>, <<1, 1, 0, 1>>, <<0, 1, 1, 2>>,
                <<0, 0, 1, 3>>, <<0, 1, 0, 3>>, <<0, 1, 1, 3>>}

Confidences == {QNorm(80, 100), QNorm(95, 100)}

Fit ==
    /\ call = NoCall
    /\ \E series \in ShortSeries, orders \in ArimaOrders :
        /\ call' = [fn |-> "fit", series |-> QSeq(series)]
        /\ model' = fit(Arima_new(orders[1], orders[2], orders[3], orders[4]),
                        QSeq(series))
        /\ ret' = [kind |-> "unit"]
        /\ UNCHANGED <<future_easter, overflow_checks, frame, seen>>

Fitted == call.fn = "fit"

ForecastReturn(steps, f) ==
    /\ call' = [fn |-> "forecast", steps |-> steps]
    /\ ret' = [kind |-> "forecast", panic |-> f.panic, val |-> f.val]
    /\ UNCHANGED <<model, future_easter, overflow_checks, frame, seen>>

ArimaForecast ==
    /\ Fitted
    /\ \E steps \in 0..MaxSteps :
        /\ Len(model.original_series) + steps <= MaxSize
        /\ ForecastReturn(steps, forecast(model, steps, overflow_checks))

IntervalsReturn(steps, confidence, ci) ==
    /\ call' = [fn |-> "confidence_intervals", steps |-> steps,
                confidence |-> confidence]
    /\ ret' = [kind |-> "intervals", panic |-> ci.panic, lower |-> ci.lower,
               upper |-> ci.upper]
    /\ UNCHANGED <<model, future_easter, overflow_checks, frame, seen>>

ArimaIntervals ==
    /\ Fitted
    /\ \E steps \in 0..MaxSteps, confidence \in Confidences :
        /\ Len(model.original_series) + steps <= MaxSize
        /\ IntervalsReturn(steps, confidence,
                           confidence_intervals(model, steps, confidence,
                                                overflow_checks))

NextArima == Fit \/ ArimaForecast \/ ArimaIntervals

SpecArima == Init /\ [][NextArima]_vars

----------------------------------------------------------------------------
(* arima.rs, Arima::forecast_with_exog one turn of its loop at a time: fit, *)
(* then one call whose locals are in `frame`.                               *)

MovingAverageOrders == {<<0, 0, 1, 1>>, <<0, 0, 2, 1>>, <<0, 1, 2, 1>>, <<0, 0, 2, 2>>}

FitMovingAverage ==
    /\ call = NoCall
    /\ \E series \in ShortSeries, orders \in MovingAverageOrders :
        /\ call' = [fn |-> "fit", series |-> QSeq(series)]
        /\ model' = fit(Arima_new(orders[1], orders[2], orders[3], orders[4]),
                        QSeq(series))
        /\ ret' = [kind |-> "unit"]
        /\ UNCHANGED <<future_easter, overflow_checks, frame, seen>>

InLoop == call.fn = "forecast_with_exog" /\ ret = NoRet

\* the clones `extended` and `extended_residuals`; q more steps than MaxSteps
\* would not show, so the loop may run one turn past every coefficient
ForecastEnter ==
    /\ Fitted
    /\ \E steps \in 0..(MaxSteps + 1) :
        call' = [fn |-> "forecast_with_exog", steps |-> steps, future_exog |-> None]
    /\ ret' = NoRet
    /\ frame' = [s |-> 0, extended |-> model.differenced_series,
                 extended_residuals |-> model.residuals, ma |-> <<>>]
    /\ UNCHANGED <<model, future_easter, overflow_checks, seen>>

\* one turn of `for _ in 0..steps`; frame.ma keeps the turn's MA component
ForecastTurn ==
    /\ InLoop
    /\ frame.s < call.steps
    /\ IF overflow_checks /\ ma_underflows(model, frame.extended_residuals)
       THEN /\ ret' = [kind |-> "forecast", panic |-> TRUE, val |-> <<>>]
            /\ frame' = NoFrame
       ELSE /\ ret' = ret
            /\ frame' =
                  [s |-> frame.s + 1,
                   extended |->
                      Append(frame.extended,
                             QAdd(QAdd(model.intercept,
                                       ar_component(model, frame.extended)),
                                  ma_component(model, frame.extended_residuals))),
                   extended_residuals |-> Append(frame.extended_residuals, QZero),
                   ma |-> ma_component(model, frame.extended_residuals)]
    /\ UNCHANGED <<call, model, future_easter, overflow_checks, seen>>

ForecastLeaveWith(f) ==
    /\ ret' = [kind |-> "forecast", panic |-> f.panic, val |-> f.val]
    /\ frame' = NoFrame
    /\ UNCHANGED <<call, model, future_easter, overflow_checks, seen>>

\* after the loop: the tail of `extended`, undifferenced, reseasonalized,
\* with the exogenous effect, clamped
ForecastLeave ==
    /\ InLoop
    /\ frame.s = call.steps
    /\ ForecastLeaveWith(
          forecast_finish(model,
              forecast_reseasonalize(model,
                  forecast_undifference(model,
                      forecast_tail(model, [panic |-> FALSE, val |-> frame.extended]))),
              call.future_exog))

NextRecursion == FitMovingAverage \/ ForecastEnter \/ ForecastTurn \/ ForecastLeave

SpecRecursion == Init /\ [][NextRecursion]_vars

----------------------------------------------------------------------------
(* arima.rs, the Arima model and a caller that fits it once and then calls  *)
(* forecast, forecast_with_exog and confidence_intervals in any order, any  *)
(* number of times, keeping the first forecast of each length in `seen`.    *)

ObservedOrders == {<<1, 0, 0, 1>>, <<0, 1, 1, 2>>}

\* series the caller fits: none, one value, and shapes of two and three
ObservedSeries ==
    {<<>>, <<1>>, <<0, 2>>, <<1, 1>>, <<0, 0, 1>>, <<2, 0, 1>>, <<0, 1, 2>>, <<1, 2, 2>>}

\* an indicator of the first month, as long as the series
FirstMonth(n) == [k \in 1..n |-> IF k = 1 THEN QOne ELSE QZero]

Unseen == [kind |-> "unseen"]

FitOnceWith(series, fitted) ==
    /\ call' = [fn |-> "fit_with_exog", series |-> series]
    /\ model' = fitted
    /\ ret' = [kind |-> "unit"]
    /\ seen' = [fitted |-> fitted, forecasts |-> [h \in 1..(MaxSteps + 1) |-> Unseen],
                repeated |-> FALSE]
    /\ UNCHANGED <<future_easter, overflow_checks, frame>>

FitOnce ==
    /\ call = NoCall
    /\ \E series \in ObservedSeries, orders \in ObservedOrders, with_exog \in BOOLEAN :
        FitOnceWith(QSeq(series),
                    fit_with_exog(Arima_new(orders[1], orders[2], orders[3], orders[4]),
                                  QSeq(series),
                                  IF with_exog THEN Some(FirstMonth(Len(series)))
                                  ELSE None))

\* fitted, and no call has panicked
Observable == call.fn # "none" /\ (IF ret.kind = "unit" THEN TRUE ELSE ~ret.panic)

ObserveForecastReturn(steps, f) ==
    /\ call' = [fn |-> "forecast", steps |-> steps]
    /\ ret' = [kind |-> "forecast", panic |-> f.panic, val |-> f.val]
    /\ model' = self_after_forecast(model, steps, overflow_checks)
    /\ seen' = IF seen.forecasts[steps + 1] = Unseen
               THEN [seen EXCEPT !.forecasts[steps + 1] =
                        [kind |-> "forecast", panic |-> f.panic, val |-> f.val]]
               ELSE [seen EXCEPT !.repeated = TRUE]
    /\ UNCHANGED <<future_easter, overflow_checks, frame>>

ObserveForecast ==
    /\ Observable
    /\ \E steps \in 0..MaxSteps :
        /\ Len(model.original_series) + steps <= MaxSize
        /\ ObserveForecastReturn(steps, forecast(model, steps, overflow_checks))

ObserveForecastWithExogReturn(steps, f) ==
    /\ call' = [fn |-> "forecast_with_exog", steps |-> steps]
    /\ ret' = [kind |-> "forecast", panic |-> f.panic, val |-> f.val]
    /\ model' = self_after_forecast(model, steps, overflow_checks)
    /\ UNCHANGED <<future_easter, overflow_checks, frame, seen>>

ObserveForecastWithExog ==
    /\ Observable
    /\ \E steps \in 0..MaxSteps :
        /\ Len(model.original_series) + steps <= MaxSize
        /\ ObserveForecastWithExogReturn(steps,
              forecast_with_exog(model, steps, Some(FirstMonth(steps)), overflow_checks))

ObserveIntervalsReturn(steps, ci) ==
    /\ call' = [fn |-> "confidence_intervals", steps |-> steps]
    /\ ret' = [kind |-> "intervals", panic |-> ci.panic, lower |-> ci.lower,
               upper |-> ci.upper]
    /\ model' = self_after_forecast(model, steps, overflow_checks)
    /\ UNCHANGED <<future_easter, overflow_checks, frame, seen>>

ObserveIntervals ==
    /\ Observable
    /\ \E steps \in 0..MaxSteps :
        /\ Len(model.original_series) + steps <= MaxSize
        /\ ObserveIntervalsReturn(steps,
              confidence_intervals(model, steps, QNorm(80, 100), overflow_checks))

NextObservers ==
    FitOnce \/ ObserveForecast \/ ObserveForecastWithExog \/ ObserveIntervals

SpecObservers == Init /\ [][NextObservers]_vars

----------------------------------------------------------------------------
(* Properties of the forecast boundary (Spec). *)

QGe(a, b) == QLe(b, a)

ForecastCalled == call.fn = "forecast" /\ call.input.json_ok

MinimumLength ==
    call.input.p + call.input.d + call.input.q + call.input.seasonal_period

\* C1, as stated: every request that passes validation (series at least
\* p + d + q + seasonal_period long, any forecast_months >= 0) gets a success
\* response, never a panic, with forecast, lower and upper of length
\* forecast_months.
C1_ValidatedRequestsSucceed ==
    (ForecastCalled /\ Len(call.input.series) >= MinimumLength)
        => /\ ret.kind = "ok"
           /\ Len(ret.forecast) = call.input.forecast_months
           /\ Len(ret.lower) = call.input.forecast_months
           /\ Len(ret.upper) = call.input.forecast_months

\* C2: a parsed request is answered with the fixed "Series too short" error
\* exactly when its series is shorter than p + d + q + seasonal_period.
C2_TooShortIffBelowMinimum ==
    ForecastCalled
        => ((ret = [kind |-> "error", error |-> TooShort])
                <=> Len(call.input.series) < MinimumLength)

\* a series one short of the default minimum (2 + 1 + 1 + 12) is rejected
C2_RejectedOneBelowMinimum ==
    /\ ForecastCalled
    /\ MinimumLength = 16
    /\ Len(call.input.series) = MinimumLength - 1
    /\ ret = [kind |-> "error", error |-> TooShort]

\* C3, as stated: in a success response ar_coefficients, ma_coefficients and
\* seasonal_factors have the lengths p, q and seasonal_period of the request.
C3_CoefficientLengthsAsRequested ==
    (ForecastCalled /\ ret.kind = "ok")
        => /\ Len(ret.ar_coefficients) = call.input.p
           /\ Len(ret.ma_coefficients) = call.input.q
           /\ Len(ret.seasonal_factors) = call.input.seasonal_period

\* C4, as stated: with the Easter regressor enabled and a non-zero Easter
\* coefficient c, every point forecast is max(0, reseasonalized + c * X_f),
\* X_f the future indicator: c is added where X_f is 1, nothing where it is 0.
C4_EasterEffectAdded ==
    (ForecastCalled /\ ret.kind = "ok" /\ call.input.use_easter_regressor
        /\ ret.easter_coefficient # QZero)
        => \A s \in 1..Len(ret.forecast) :
              ret.forecast[s] =
                  QMax(QAdd(forecast_reseasonalized(model, call.input.forecast_months,
                                                    overflow_checks).val[s],
                            QMul(ret.easter_coefficient, future_easter[s])),
                       QZero)

\* the calendar year and month of index i of the request's series
SeriesYear(i) == call.input.start_year + ((call.input.start_month - 1 + i) \div 12)

SeriesMonth(i) == ((call.input.start_month - 1 + i) % 12) + 1

IsInvoiceMonth(y, m) == \E e \in y..(y + 1) : easter_invoice_month(e) = <<y, m>>

\* C14, as stated: with the Easter regressor enabled, for a series of length
\* N, element s of the future Easter regressor is 1 exactly when the calendar
\* month of series index N + s is an Easter invoice month, for every
\* s < forecast_months.
C14_FutureRegressorAligned ==
    (ForecastCalled /\ ret.kind = "ok" /\ call.input.use_easter_regressor)
        => /\ Len(future_easter) = call.input.forecast_months
           /\ \A s \in 0..(call.input.forecast_months - 1) :
                 At(future_easter, s) = QOne
                     <=> IsInvoiceMonth(SeriesYear(Len(call.input.series) + s),
                                        SeriesMonth(Len(call.input.series) + s))

\* a validated request for at least one month whose series is n >= 1 values,
\* all the same
ConstantRequest ==
    /\ ForecastCalled
    /\ ~series_too_short(call.input)
    /\ call.input.forecast_months >= 1
    /\ Len(call.input.series) >= 1
    /\ \A k \in 1..Len(call.input.series) : call.input.series[k] = call.input.series[1]

AllAre(s, x) == \A k \in 1..Len(s) : s[k] = x

\* the response C15 gives for the constant c: a zero Easter coefficient,
\* seasonal factors 1, intercept 0, AR and MA coefficients 0, and forecast,
\* lower and upper all c
ConstantResponse(c) ==
    /\ ret.kind = "ok"
    /\ ret.easter_coefficient = QZero
    /\ AllAre(ret.seasonal_factors, QOne)
    /\ ret.intercept = QZero
    /\ AllAre(ret.ar_coefficients, QZero)
    /\ AllAre(ret.ma_coefficients, QZero)
    /\ Len(ret.forecast) = call.input.forecast_months
    /\ AllAre(ret.forecast, c) /\ AllAre(ret.lower, c) /\ AllAre(ret.upper, c)

C5_BandsOrdered ==
    (ForecastCalled /\ ret.kind = "ok")
        => \A i \in 1..Len(ret.forecast) :
              /\ QGe(ret.forecast[i], QZero)
              /\ QGe(ret.lower[i], QZero)
              /\ QGe(ret.upper[i], ret.forecast[i])

\* a success response, Easter enabled with a non-zero coefficient, where the
\* half-width of a band exceeds its positive forecast and the lower band is
\* clamped to zero
C5_ClampedBand ==
    /\ ForecastCalled
    /\ ret.kind = "ok"
    /\ call.input.use_easter_regressor
    /\ ret.easter_coefficient # QZero
    /\ \E i \in 1..Len(ret.forecast) :
          /\ QGt(ret.forecast[i], QZero)
          /\ ret.lower[i] = QZero
          /\ QGt(QSub(ret.upper[i], ret.forecast[i]), ret.forecast[i])

----------------------------------------------------------------------------
(* Properties of the Easter calendar (SpecEaster). *)

RegressorCalled == call.fn = "create_easter_regressor" /\ call.start_month <= 12

\* the calendar year and month of position k (0-based) of the called window
WindowYear(k) == call.start_year + ((call.start_month - 1 + k) \div 12)

WindowMonth(k) == ((call.start_month - 1 + k) % 12) + 1

Positions == 0..(call.length - 1)

FullyCovered(y) ==
    \A m \in 1..12 : \E k \in Positions : WindowYear(k) = y /\ WindowMonth(k) = m

OnesIn(y) == {k \in Positions : WindowYear(k) = y /\ At(ret.val, k) = QOne}

\* C6, as stated: each calendar year the window covers in full holds exactly
\* one 1, and every other position is 0.
C6_OneMonthPerCoveredYear ==
    RegressorCalled
        => /\ \A y \in call.start_year..(call.start_year + 3) :
                FullyCovered(y) => Cardinality(OnesIn(y)) = 1
           /\ \A k \in Positions : At(ret.val, k) \in {QZero, QOne}

\* C6, amended: position k is 1 exactly when its calendar month is the invoice
\* month of some Easter (of its own year or the next), and 0 otherwise.
C6_OnesAreInvoiceMonths ==
    RegressorCalled
        => \A k \in Positions :
              At(ret.val, k) =
                  IF \E y \in WindowYear(k)..(WindowYear(k) + 1) :
                        easter_invoice_month(y) = <<WindowYear(k), WindowMonth(k)>>
                  THEN QOne ELSE QZero

\* a window that covers in full a year with two invoice months and a year
\* with none
C6_YearsWithTwoAndNone ==
    /\ RegressorCalled
    /\ \E y \in call.start_year..(call.start_year + 3) :
          FullyCovered(y) /\ Cardinality(OnesIn(y)) = 2
    /\ \E y \in call.start_year..(call.start_year + 3) :
          FullyCovered(y) /\ Cardinality(OnesIn(y)) = 0

TestWindow ==
    call = [fn |-> "create_easter_regressor", start_year |-> 2024,
            start_month |-> 1, length |-> 24]

\* C7, as stated: create_easter_regressor(2024, 1, 24) is 0 at position 11,
\* 1 at position 12, 0 at position 13, and sums to 2.
C7_TestWindowSumsToTwo ==
    TestWindow
        => /\ At(ret.val, 11) = QZero
           /\ At(ret.val, 12) = QOne
           /\ At(ret.val, 13) = QZero
           /\ QSum(ret.val) = Q(2)

\* C7, amended: create_easter_regressor(2024, 1, 24) is 0 at position 11,
\* 1 at position 12, 0 at position 13, and sums to 1.
C7_TestWindowSumsToOne ==
    TestWindow
        => /\ At(ret.val, 11) = QZero
           /\ At(ret.val, 12) = QOne
           /\ At(ret.val, 13) = QZero
           /\ QSum(ret.val) = Q(1)

\* the window of January 2024, 24 months, built, with January 2025 marked
C7_TestWindowBuilt == TestWindow /\ Len(ret.val) = 24 /\ At(ret.val, 12) = QOne

EasterDates ==
    [year \in 2019..2027 |->
        CASE year = 2019 -> <<4, 21>> [] year = 2020 -> <<4, 12>>
          [] year = 2021 -> <<4, 4>>  [] year = 2022 -> <<4, 17>>
          [] year = 2023 -> <<4, 9>>  [] year = 2024 -> <<3, 31>>
          [] year = 2025 -> <<4, 20>> [] year = 2026 -> <<4, 5>>
          [] year = 2027 -> <<3, 28>>]

InvoiceMonths ==
    [year \in 2024..2026 |->
        CASE year = 2024 -> <<2023, 12>> [] year = 2025 -> <<2025, 1>>
          [] year = 2026 -> <<2026, 1>>]

\* C8: easter_sunday gives the nine dates of 2019..2027, and
\* easter_invoice_month gives (year - 1, month + 9) for an Easter in a month
\* <= 3 and (year, month - 3) otherwise: (2023, 12), (2025, 1), (2026, 1) for
\* 2024, 2025, 2026.
C8_EasterDates ==
    /\ (call.fn = "easter_sunday" /\ call.year \in DOMAIN EasterDates)
          => ret.val = EasterDates[call.year]
    /\ (call.fn = "easter_invoice_month" /\ call.year \in DOMAIN InvoiceMonths)
          => ret.val = InvoiceMonths[call.year]
    /\ (call.fn = "easter_invoice_month" /\ call.year \in DOMAIN EasterDates)
          => ret.val = IF EasterDates[call.year][1] <= 3
                       THEN <<call.year - 1, EasterDates[call.year][1] + 9>>
                       ELSE <<call.year, EasterDates[call.year][1] - 3>>

\* the invoice month of the March Easter of 2024, in the year before
C8_MarchEaster ==
    /\ call = [fn |-> "easter_invoice_month", year |-> 2024]
    /\ ret.val = <<2023, 12>>

\* a call with the start month 13 that fit_and_forecast passes for a last
\* month of December
StartsAtThirteen == call.fn = "create_easter_regressor" /\ call.start_month = 13

\* C12, as stated: create_easter_regressor(y, 13, L) equals
\* create_easter_regressor(y + 1, 1, L) position by position.
C12_ThirteenIsNextJanuary ==
    StartsAtThirteen
        => ret.val = create_easter_regressor(call.start_year + 1, 1, call.length)

\* C12, amended: position 0 of create_easter_regressor(y, 13, L) is 0, the
\* cursor being at month 13, and position i >= 1 is position i - 1 of
\* create_easter_regressor(y + 1, 1, L - 1): the window is the one starting
\* in January of y + 1, one position late.
C12_ThirteenIsNextJanuaryOneLate ==
    (StartsAtThirteen /\ call.length >= 1)
        => ret.val = <<QZero>> \o create_easter_regressor(call.start_year + 1, 1,
                                                          call.length - 1)

\* a window from month 13 whose next January is an Easter invoice month: the
\* 1 is at position 1, where the window from January has it at position 0
C12_JanuaryInvoiceMonth ==
    /\ StartsAtThirteen
    /\ call.length >= 2
    /\ <<call.start_year + 1, 1>> = easter_invoice_month(call.start_year + 1)
    /\ At(ret.val, 0) = QZero
    /\ At(ret.val, 1) = QOne
    /\ At(create_easter_regressor(call.start_year + 1, 1, call.length), 0) = QOne

----------------------------------------------------------------------------
(* Properties of the Arima model (SpecArima). *)

FactorAt(i) == At(model.seasonal_factors, i % model.seasonal_period)

TrainingLength == Len(model.original_series)

\* C9: training value i is divided by factor[i mod S]; forecast step i is
\* reseasonalized with factor[(N + i) mod S], and its confidence interval is
\* scaled by the same factor, N the training length.
C9_SeasonalIndexing ==
    /\ call.fn # "none"
          => model.differenced_series =
                difference([k \in 1..TrainingLength |->
                               QDiv(model.original_series[k], FactorAt(k - 1))],
                           model.d)
    /\ (call.fn = "forecast" /\ ~ret.panic)
          => \A i \in 0..(call.steps - 1) :
                At(ret.val, i) =
                    QMax(QMul(At(forecast_deseas(model, call.steps,
                                                 overflow_checks).val, i),
                              FactorAt(TrainingLength + i)),
                         QZero)
    /\ (call.fn = "confidence_intervals" /\ ~ret.panic)
          => \A i \in 0..(call.steps - 1) :
                QSub(At(ret.upper, i),
                     At(forecast(model, call.steps, overflow_checks).val, i)) =
                    QMul(QMul(z_score(call.confidence),
                              QMul(standard_error(model),
                                   QSqrt(QAdd(QOne, QMul(Q(i), QNorm(1, 10)))))),
                         FactorAt(TrainingLength + i))

\* intervals of a model whose factors differ, whose residuals are not all
\* zero, and whose forecast steps run past the end of a season
C9_WrappedInterval ==
    /\ call.fn = "confidence_intervals"
    /\ ~ret.panic
    /\ standard_error(model) # QZero
    /\ \E i \in 1..(call.steps - 1) :
          /\ (TrainingLength % model.seasonal_period) + i >= model.seasonal_period
          /\ TrainingLength % model.seasonal_period # 0
          /\ FactorAt(TrainingLength + i) # FactorAt(i)
          /\ At(ret.upper, i) # At(ret.lower, i)

----------------------------------------------------------------------------
(* Properties of differencing (SpecDiff). *)

\* an integer short enough for every difference of two such to be exact
Short(x) == x.d = 1 /\ 2 * Abs(x.n) < 2^MantissaBits

AllShort(s) == \A k \in 1..Len(s) : Short(s[k])

DifferenceFacts ==
    /\ call.fn = "difference"
          => Len(ret.val) = Max2(0, Len(call.series) - call.d)
    /\ (call.fn = "difference" /\ call.series = QSeq(TestSeries) /\ call.d = 1)
          => ret.val = QSeq(<<2, 3, -1, 4>>)

\* C10, as stated: for d = 1 undifference, applied to the continuation's part
\* of difference(H ++ F, 1) with history H, returns exactly F, for every
\* non-empty H and F; difference([10,12,15,14,18], 1) = [2,3,-1,4]; the length
\* of difference is max(0, len - d).
C10_UndifferenceInverts ==
    /\ (call.fn = "undifference" /\ call.d = 1)
          => (~ret.panic /\ ret.val = call.continuation)
    /\ DifferenceFacts

\* C10, amended: the same, for H and F whose differences are computed without
\* rounding (integers short of the mantissa by a bit).
C10_UndifferenceInvertsExact ==
    /\ (call.fn = "undifference" /\ call.d = 1
            /\ AllShort(call.original) /\ AllShort(call.continuation))
          => (~ret.panic /\ ret.val = call.continuation)
    /\ DifferenceFacts

\* a continuation of two values that differs from the end of its history,
\* returned by undifference
C10_RoundTrip ==
    /\ call.fn = "undifference"
    /\ call.d = 1
    /\ AllShort(call.original) /\ AllShort(call.continuation)
    /\ Len(call.continuation) = 2
    /\ call.continuation[1] # call.original[Len(call.original)]
    /\ call.continuation[2] # call.continuation[1]
    /\ ret.val = call.continuation

----------------------------------------------------------------------------
(* Properties of the forecast recursion (SpecRecursion). *)

\* the turn whose MA component frame.ma holds
TurnDone == frame.s - 1

\* ma_coeffs[i] times the training residual it meets in turn s, for i >= s
TrainingTerm(i, s) ==
    LET res_idx == Len(model.residuals) + s - 1 - i
    IN  IF i >= s /\ res_idx >= 0
        THEN QMul(At(model.ma_coeffs, i), At(model.residuals, res_idx))
        ELSE QZero

\* C11: with non-empty residuals, the MA term of forecast step s is made of
\* the ma_coeffs[i] with i >= s only, each times a training residual, and it
\* is exactly 0 for every step s >= q; the forecast returned is the one the
\* turns built.
C11_MovingAverageDecays ==
    /\ (InLoop /\ frame.s >= 1 /\ Len(model.residuals) > 0)
          => /\ frame.ma = QSum([t \in 1..Len(model.ma_coeffs) |->
                                   TrainingTerm(t - 1, TurnDone)])
             /\ TurnDone >= model.q => frame.ma = QZero
    /\ (call.fn = "forecast_with_exog" /\ ret # NoRet)
          => ret.val = forecast_with_exog(model, call.steps, call.future_exog,
                                          overflow_checks).val

\* the turn after the last coefficient's, of a model with two non-zero MA
\* coefficients and non-zero last residuals, whose turn before had an MA term
C11_DecayedAfterTwoTurns ==
    /\ InLoop
    /\ model.q = 2
    /\ TurnDone = 2
    /\ Len(model.residuals) >= 2
    /\ \A i \in 0..1 : At(model.ma_coeffs, i) # QZero
    /\ \A i \in 1..2 : At(model.residuals, Len(model.residuals) - i) # QZero
    /\ TrainingTerm(1, 1) # QZero
    /\ frame.ma = QZero

----------------------------------------------------------------------------
(* Properties of the observers of a fitted model (SpecObservers). *)

====
